---- MODULE Spec2Model ----
(***************************************************************************)
(* The asynchronous generation-job tracker of HookGenerator.py: the        *)
(* process-wide registry generation_status, the start callbacks, the       *)
(* background workers and the polling callbacks, together with the         *)
(* generation calls of model_serving_utils.py that the workers make.       *)
(*                                                                         *)
(* Dash serves every callback on its own server thread, so the handlers    *)
(* interleave at the granularity of their accesses to generation_status;   *)
(* each action below is one such access together with the local code       *)
(* around it.                                                              *)
(***************************************************************************)
EXTENDS Integers, Sequences, FiniteSets, TLC

\* ---------------------------------------------------------------- bounds
NumSessions == 2      \* browser sessions (one n_clicks counter per button each)
MaxStarts == 2        \* start requests over the whole run
NumPollers == 2       \* server threads that can run a poll callback at once
MaxClock == 1         \* the readings time.time() can give are 0..MaxClock
MaxLen == 1           \* longest blog-input text, in characters

Sessions == 1..NumSessions
Requests == 1..MaxStarts
Pollers == 1..NumPollers
Kinds == {"gen", "thumb"}

\* ------------------------------------------------------- Python values
\* A value that is either None or a str; a str is the sequence of its
\* pieces (characters for the blog input, tokens for generated text).
None == [isNone |-> TRUE, s |-> <<>>]
Str(q) == [isNone |-> FALSE, s |-> q]
\* Python truthiness of an Optional[str]: None and "" are falsy.
Truthy(v) == ~v.isNone /\ v.s # <<>>

Whitespace == {" ", "\n"}
Chars == {" ", "a"}

RECURSIVE LStrip(_)
LStrip(q) == IF q # <<>> /\ Head(q) \in Whitespace THEN LStrip(Tail(q)) ELSE q

RECURSIVE RStrip(_)
RStrip(q) ==
    IF q # <<>> /\ q[Len(q)] \in Whitespace
    THEN RStrip(SubSeq(q, 1, Len(q) - 1))
    ELSE q

\* str.strip()
Strip(v) == Str(RStrip(LStrip(v.s)))

\* The texts a user can have in blog-input: None (never typed), or a text
\* of at most MaxLen characters.
SeqsUpTo(S, n) == UNION {[1..m -> S] : m \in 0..n}
Contents == {None} \cup {Str(q) : q \in SeqsUpTo(Chars, MaxLen)}

\* The check without its second half: `not blog_content`.
IsBlankNoStrip(c) == ~Truthy(c)

\* `not blog_content or not blog_content.strip()`
IsBlank(c) == ~Truthy(c) \/ ~Truthy(Strip(c))

\* ------------------------------------------------------------ job ids
\* f"gen_{n_clicks}_{time.time()}" / f"thumb_{n_clicks}_{time.time()}": the
\* formatted string is determined by, and determines, (prefix, n_clicks,
\* clock reading): neither number contains "_".
NoId == [kind |-> "None", n |-> 0, t |-> 0]
GenId(k, n, t) == [kind |-> k, n |-> n, t |-> t]
Ids == {GenId(k, n, t) : k \in Kinds, n \in 1..MaxStarts, t \in 0..MaxClock}

\* ------------------------------------------- model_serving_utils.py
\* What a call returns or raises: Ok(value) or Raise(message).
Ok(v) == [ok |-> TRUE, val |-> v, err |-> <<>>]
Raise(e) == [ok |-> FALSE, val |-> None, err |-> e]

\* A chat message (a dict) as the endpoint returns it. has: the dict has a
\* "content" key; ctype: the Python type of the content ("none" is None).
Msg(has, ctype, text, parts) ==
    [has |-> has, ctype |-> ctype, text |-> text, parts |-> parts]
MsgStr(text) == Msg(TRUE, "str", text, <<>>)
MsgNull == Msg(TRUE, "none", <<>>, <<>>)
MsgNoContent == Msg(FALSE, "none", <<>>, <<>>)
MsgList(parts) == Msg(TRUE, "list", <<>>, parts)
MsgOther == Msg(TRUE, "other", <<>>, <<>>)
Part(type, text) == [type |-> type, text |-> text]

\* The response dict of client.predict: which of the keys "messages" and
\* "choices" it has, and the lists under them (choices[i]["message"]).
Response(hm, ms, hc, cs) ==
    [hasMessages |-> hm, messages |-> ms, hasChoices |-> hc, choices |-> cs]

\* The environment of one generation call: whether the endpoint's task type
\* is supported, whether predict raises, and the response it gives.
Env(sup, pr, res) == [supported |-> sup, predictRaises |-> pr, res |-> res]

UnsupportedMsg == "Detected unsupported endpoint type for this basic chatbot template."
PredictMsg == "predict failed"
OnlyRunAgainstMsg == "This app can only run against:"
IndexErrorMsg == "list index out of range"
TypeErrorMsg == "expected string or bytes-like object"
NoContentMsg == "Error: No content in response"
HooksFailedPrefix == "Failed to generate hooks: "
ThumbsFailedPrefix == "Failed to generate thumbnails: "
\* The cross mark U+274C is written (x) here: the module is ASCII.
ErrorPrefix == "(x) Error: "

\* m.get("content") / m.get("content", default) for a str-or-None content.
ContentOf(m, default) ==
    IF ~m.has THEN default
    ELSE IF m.ctype = "str" THEN Str(m.text)
    ELSE None

RECURSIVE JoinText(_)
\* "".join([part.get("text", "") for part in choice_content
\*          if part.get("type") == "text"])
JoinText(parts) ==
    IF parts = <<>> THEN <<>>
    ELSE (IF Head(parts).type = "text" THEN Head(parts).text ELSE <<>>)
         \o JoinText(Tail(parts))

\* _query_endpoint: the list of messages, or the exception raised.
QueryEndpoint(env) ==
    IF ~env.supported THEN Raise(<<UnsupportedMsg>>)
    ELSE IF env.predictRaises THEN Raise(<<PredictMsg>>)
    ELSE IF env.res.hasMessages THEN Ok(env.res.messages)
    ELSE IF env.res.hasChoices THEN
        IF env.res.choices = <<>> THEN Raise(<<IndexErrorMsg>>)
        ELSE LET choice_message == env.res.choices[1]
                 ctype == IF choice_message.has THEN choice_message.ctype ELSE "none"
             IN  IF ctype = "list"
                 THEN Ok(<<MsgStr(JoinText(choice_message.parts))>>)
                 ELSE IF ctype = "str" THEN Ok(<<choice_message>>)
                 ELSE Raise(<<OnlyRunAgainstMsg>>)
    ELSE Raise(<<OnlyRunAgainstMsg>>)

\* _query_endpoint(...)[-1].get("content", "Error: No content in response")
LastContent(q) ==
    IF ~q.ok THEN Raise(q.err)
    ELSE IF q.val = <<>> THEN Raise(<<IndexErrorMsg>>)
    ELSE Ok(ContentOf(q.val[Len(q.val)], Str(<<NoContentMsg>>)))

\* generate_hooks
GenerateHooks(env) ==
    LET c == LastContent(QueryEndpoint(env))
    IN  IF c.ok THEN c ELSE Raise(<<HooksFailedPrefix>> \o c.err)

\* Generated text is a sequence of tokens. A concept token stands for one
\* concept block of the prompt's format ("n.\nTHUMBNAIL_TEXT: ...\n
\* IMAGE_DESCRIPTION: <d>"), which holds one match of the IMAGE_DESCRIPTION
\* pattern, with description <d>; any other token holds none. NLTok is one
\* newline character.
ConceptA == "1. THUMBNAIL_TEXT: A IMAGE_DESCRIPTION: a"
ConceptB == "2. THUMBNAIL_TEXT: B IMAGE_DESCRIPTION: b"
ConceptC == "3. THUMBNAIL_TEXT: C IMAGE_DESCRIPTION: c"
ConceptToks == {ConceptA, ConceptB, ConceptC}
DescriptionOf(tok) ==
    IF tok = ConceptA THEN "a" ELSE IF tok = ConceptB THEN "b" ELSE "c"
TextTok == "TEXT"
NLTok == "\n"
\* "=" * 50
RuleTok == "=================================================="
\* The marker display_thumbnail_results splits at; the palette sign U+1F3A8
\* before the words is left out: the module is ASCII.
MarkerTok == "GENERATED IMAGES"
\* "\n\n" + "="*50 + "\n(palette) GENERATED IMAGES\n" + "="*50 + "\n\n"
Divider == <<NLTok, NLTok, RuleTok, NLTok, MarkerTok, NLTok, RuleTok, NLTok, NLTok>>
BeginImageTok == "[BASE64_IMAGE_DATA]"
EndImageTok == "[END_IMAGE_DATA]"
BlobTok == "iVBORw0KGgo="
BlobTok2 == "R0lGODlhAQ=="
ImageHdr(idx) == IF idx = 1 THEN "Image 1:" ELSE "Image 2:"
ImageFail(idx) ==
    IF idx = 1 THEN "Image 1: (x) Failed to generate" ELSE "Image 2: (x) Failed to generate"

\* What the image endpoint does for one call of _generate_image: predict
\* raises; or the response is (not) a dict with (or without) 'data'; data is
\* a list whose first element has (or has not) a 'b64_json' string.
ImageEnv(raises, hasData, images) ==
    [raises |-> raises, hasData |-> hasData, images |-> images]
ImageItem(has, b64) == [has |-> has, b64 |-> b64]

\* _generate_image: the base64 string, or "" on any failure.
GenerateImage(ienv) ==
    IF ienv.raises THEN ""
    ELSE IF ienv.hasData /\ ienv.images # <<>>
         THEN (IF ienv.images[1].has THEN ienv.images[1].b64 ELSE "")
         ELSE ""

\* re.findall(IMAGE_DESCRIPTION..., concepts_text): the matches, in order.
RECURSIVE Descriptions(_)
Descriptions(text) ==
    IF text = <<>> THEN <<>>
    ELSE (IF Head(text) \in ConceptToks THEN <<DescriptionOf(Head(text))>> ELSE <<>>)
         \o Descriptions(Tail(text))

\* descriptions[:2]
FirstTwo(q) == SubSeq(q, 1, IF Len(q) < 2 THEN Len(q) ELSE 2)

\* The prompts the loop over enumerate(descriptions[:2], 1) passes to
\* _generate_image, in the order of the calls.
ImageCalls(concepts_text) == FirstTwo(Descriptions(concepts_text))

\* The block that reports a failed image as if the job had no such concept.
ImageBlockDropsFailure(idx, image_b64) ==
    IF image_b64 # ""
    THEN <<ImageHdr(idx), NLTok, BeginImageTok, NLTok, image_b64, NLTok, EndImageTok,
           NLTok, NLTok>>
    ELSE <<>>

\* Lines 181-185: the block appended for the idx-th image.
ImageBlock(idx, image_b64) ==
    IF image_b64 # ""
    THEN <<ImageHdr(idx), NLTok, BeginImageTok, NLTok, image_b64, NLTok, EndImageTok,
           NLTok, NLTok>>
    ELSE <<ImageFail(idx), NLTok, NLTok>>

RECURSIVE ImageBlocks(_, _, _)
\* The loop over enumerate(descriptions[:2], 1): imgs[idx] is what the image
\* endpoint does for the idx-th call.
ImageBlocks(n, imgs, idx) ==
    IF idx > n THEN <<>>
    ELSE ImageBlock(idx, GenerateImage(imgs[idx])) \o ImageBlocks(n, imgs, idx + 1)

\* generate_thumbnails
GenerateThumbnails(env, imgs) ==
    LET c == LastContent(QueryEndpoint(env))
    IN  IF ~c.ok THEN Raise(<<ThumbsFailedPrefix>> \o c.err)
        ELSE IF c.val.isNone THEN Raise(<<ThumbsFailedPrefix, TypeErrorMsg>>)
        ELSE LET concepts_text == c.val.s
                 n == Len(ImageCalls(concepts_text))
             IN  Ok(Str(concepts_text \o Divider \o ImageBlocks(n, imgs, 1)))

\* The call a worker of kind k makes.
Generate(k, env, imgs) ==
    IF k = "gen" THEN GenerateHooks(env) ELSE GenerateThumbnails(env, imgs)

\* What the image endpoint can do for one call, and for the two calls of a job.
ImageEnvs ==
    {ImageEnv(TRUE, FALSE, <<>>),
     ImageEnv(FALSE, FALSE, <<>>),
     ImageEnv(FALSE, TRUE, <<>>),
     ImageEnv(FALSE, TRUE, <<ImageItem(FALSE, "")>>),
     ImageEnv(FALSE, TRUE, <<ImageItem(TRUE, "")>>),
     ImageEnv(FALSE, TRUE, <<ImageItem(TRUE, BlobTok)>>),
     ImageEnv(FALSE, TRUE, <<ImageItem(TRUE, BlobTok2), ImageItem(TRUE, BlobTok)>>)}
ImageOutcomes == [1..2 -> ImageEnvs]

\* The texts the chat endpoint is taken to produce, and the responses built
\* from them: every shape _query_endpoint distinguishes.
Texts ==
    {<<TextTok>>,
     <<NLTok, ConceptB, NLTok>>,
     <<ConceptA, NLTok, NLTok, ConceptB>>,
     <<ConceptC, NLTok, ConceptA, NLTok, ConceptB>>}
ListParts == {<<>>, <<Part("text", <<TextTok>>), Part("image", <<BlobTok>>)>>}
MessagesMsgs == {MsgStr(t) : t \in Texts} \cup {MsgNull, MsgNoContent}
ChoiceMsgs ==
    {MsgStr(t) : t \in Texts} \cup {MsgList(ps) : ps \in ListParts}
    \cup {MsgNull, MsgNoContent, MsgOther}
Responses ==
    {Response(TRUE, <<>>, FALSE, <<>>)}
    \cup {Response(TRUE, <<m>>, FALSE, <<>>) : m \in MessagesMsgs}
    \cup {Response(TRUE, <<MsgStr(<<TextTok>>), m>>, FALSE, <<>>) : m \in MessagesMsgs}
    \cup {Response(TRUE, <<MsgStr(<<TextTok>>)>>, TRUE, <<MsgOther>>)}
    \cup {Response(FALSE, <<>>, TRUE, <<>>)}
    \cup {Response(FALSE, <<>>, TRUE, <<m>>) : m \in ChoiceMsgs}
    \cup {Response(FALSE, <<>>, FALSE, <<>>)}
Envs ==
    {Env(FALSE, FALSE, Response(FALSE, <<>>, FALSE, <<>>)),
     Env(TRUE, TRUE, Response(FALSE, <<>>, FALSE, <<>>))}
    \cup {Env(TRUE, FALSE, res) : res \in Responses}

\* The environments and image outcomes the workers of the full system meet:
\* one of each kind of end a generation call has (a text, the default text
\* for a message without content, an exception).
WorkerEnvs ==
    {Env(TRUE, FALSE, Response(TRUE, <<MsgStr(<<ConceptA, NLTok, NLTok, ConceptB>>)>>, FALSE, <<>>)),
     Env(TRUE, FALSE, Response(TRUE, <<MsgNoContent>>, FALSE, <<>>)),
     Env(TRUE, TRUE, Response(FALSE, <<>>, FALSE, <<>>))}
WorkerImages ==
    {[i \in 1..2 |-> IF i = 1 THEN ImageEnv(FALSE, TRUE, <<ImageItem(TRUE, BlobTok)>>)
                              ELSE ImageEnv(TRUE, FALSE, <<>>)]}

\* ------------------------------------------- the display callbacks
\* What a display callback returns. update = FALSE: dash.no_update for every
\* output. loading and container are the 'display' of the two styles
\* (TRUE: 'block', FALSE: 'none').
NoUpdate ==
    [update |-> FALSE, children |-> None, loading |-> FALSE, container |-> FALSE,
     store |-> None]
Shown(children, store) ==
    [update |-> TRUE, children |-> children, loading |-> FALSE, container |-> TRUE,
     store |-> store]

\* display_results
DisplayResults(result) ==
    IF result.isNone THEN NoUpdate ELSE Shown(result, result)

\* result.split(MARKER)[0]: the text before the first marker.
RECURSIVE BeforeMarker(_)
BeforeMarker(q) ==
    IF q = <<>> \/ Head(q) = MarkerTok THEN <<>>
    ELSE <<Head(q)>> \o BeforeMarker(Tail(q))

\* re.findall(r'Image \d+:\n\[BASE64_IMAGE_DATA\]\n(.+?)\n\[END_IMAGE_DATA\]',
\*            result, re.DOTALL): the captured groups, in order, scanning
\* from position i; a match ends at the first "\n[END_IMAGE_DATA]" that
\* leaves the group non-empty.
RECURSIVE FindImages(_, _)
FindImages(q, i) ==
    IF i > Len(q) THEN <<>>
    ELSE IF /\ i + 3 <= Len(q)
            /\ q[i] \in {ImageHdr(1), ImageHdr(2)}
            /\ q[i + 1] = NLTok /\ q[i + 2] = BeginImageTok /\ q[i + 3] = NLTok
         THEN LET ends == {j \in (i + 4)..(Len(q) - 2) :
                              q[j + 1] = NLTok /\ q[j + 2] = EndImageTok}
              IN  IF ends = {} THEN FindImages(q, i + 1)
                  ELSE LET j == CHOOSE e \in ends : \A f \in ends : e <= f
                       IN  <<SubSeq(q, i + 4, j)>> \o FindImages(q, j + 3)
         ELSE FindImages(q, i + 1)

RECURSIVE Thumbnails(_, _)
\* The loop over enumerate(image_matches, 1): one "Thumbnail idx" with an
\* Img for each match that is not empty once stripped.
Thumbnails(image_matches, idx) ==
    IF idx > Len(image_matches) THEN <<>>
    ELSE LET img_b64_clean == Strip(Str(image_matches[idx])).s
         IN  (IF img_b64_clean # <<>>
              THEN <<[idx |-> idx, src |-> img_b64_clean]>>
              ELSE <<>>)
             \o Thumbnails(image_matches, idx + 1)

\* display_thumbnail_results
DisplayThumbnailResults(result) ==
    IF result.isNone THEN NoUpdate
    ELSE LET concepts_text == Str(BeforeMarker(result.s))
             image_matches == FindImages(result.s, 1)
         IN  Shown([concepts |-> Strip(concepts_text).s,
                    heading |-> image_matches # <<>>,
                    images |-> Thumbnails(image_matches, 1)],
                   Strip(concepts_text))

\* The display callback of kind k.
Display(k, result) ==
    IF k = "gen" THEN DisplayResults(result) ELSE DisplayThumbnailResults(result)

\* ------------------------------------------------------------- state
VARIABLES
    generation_status,  \* self.generation_status: job id -> {'status', 'result'}
    now,                \* the latest reading time.time() gave
    req,                \* the start requests: callback position, closure, worker
    nextReq,            \* the next unused start request
    poll,               \* the poll callbacks in progress, one per server thread
    n_clicks,           \* per session and button: the n_clicks property
    trigger,            \* per session and kind: the *-generation-trigger store
    disabled,           \* per session and kind: the *-check-interval disabled property
    chained,            \* per session and kind: n_intervals was just written by a start
    generation_result,  \* per session and kind: the *-generation-result store, and
                        \* the id the poll that wrote it had polled
    displaying,         \* per session and kind: the display callback has been fired
    loading,            \* per session: loading-container is visible
    output_container,   \* per session and kind: the *output-container is visible
    output_text,        \* per session and kind: the children of *output-text
    output_store        \* per session and kind: the *output-store (the copy payload)

\* The components of a page that the callbacks write besides the trigger and
\* the interval.
ui == <<generation_result, displaying, loading, output_container, output_text, output_store>>

vars == <<generation_status, now, req, nextReq, poll, n_clicks, trigger, disabled, chained,
          generation_result, displaying, loading, output_container, output_text,
          output_store>>

Entry(status, result) == [status |-> status, result |-> result]

\* d[k] = v on a dict
Put(d, k, v) == [x \in DOMAIN d \cup {k} |-> IF x = k THEN v ELSE d[x]]

\* d.clear() in the place of del d[k]
DelAll(d, k) == [x \in {} |-> d[x]]

\* del d[k]
Del(d, k) == [x \in DOMAIN d \ {k} |-> d[x]]

NoOutcome == [ok |-> FALSE, val |-> None, err |-> <<>>]
\* A request whose generation call has not ended has met no environment yet.
NoEnv == Env(FALSE, FALSE, Response(FALSE, <<>>, FALSE, <<>>))
NoImages == [i \in 1..2 |-> ImageEnv(TRUE, FALSE, <<>>)]
UnusedRequest ==
    [pc |-> "unused", session |-> 0, kind |-> "None", n_clicks |-> 0, content |-> None,
     gen_id |-> NoId, wpc |-> "none", out |-> NoOutcome, shape |-> "none",
     env |-> NoEnv, imgs |-> NoImages]
IdlePoll ==
    [pc |-> "idle", session |-> 0, kind |-> "None", gen_id |-> NoId, seen |-> "none",
     branch |-> "none", result |-> None, stop |-> FALSE]

\* A page as the layout builds it: the stores empty, the loading indicator
\* and the output containers hidden.
Result(data, of) == [data |-> data, of |-> of]
InitPage ==
    /\ generation_result = [s \in Sessions |-> [k \in Kinds |-> Result(None, NoId)]]
    /\ displaying = [s \in Sessions |-> [k \in Kinds |-> FALSE]]
    /\ loading = [s \in Sessions |-> FALSE]
    /\ output_container = [s \in Sessions |-> [k \in Kinds |-> FALSE]]
    /\ output_text = [s \in Sessions |-> [k \in Kinds |-> None]]
    /\ output_store = [s \in Sessions |-> [k \in Kinds |-> None]]

Init ==
    /\ generation_status = [x \in {} |-> Entry("generating", None)]
    /\ now = 0
    /\ req = [r \in Requests |-> UnusedRequest]
    /\ nextReq = 1
    /\ poll = [p \in Pollers |-> IdlePoll]
    /\ n_clicks = [s \in Sessions |-> [k \in Kinds |-> 0]]
    /\ trigger = [s \in Sessions |-> [k \in Kinds |-> NoId]]
    /\ disabled = [s \in Sessions |-> [k \in Kinds |-> TRUE]]
    /\ chained = [s \in Sessions |-> [k \in Kinds |-> FALSE]]
    /\ InitPage

\* The shapes of a response that make it unusable: it has neither 'messages'
\* nor 'choices'; its choice has a content that is neither a string nor a
\* list; its final message has no 'content' field.
Malformed(res) ==
    \/ ~res.hasMessages /\ ~res.hasChoices
    \/ /\ ~res.hasMessages /\ res.hasChoices /\ res.choices # <<>>
       /\ \/ ~res.choices[1].has
          \/ res.choices[1].ctype \notin {"str", "list"}
    \/ /\ res.hasMessages /\ res.messages # <<>>
       /\ ~res.messages[Len(res.messages)].has
ShapeOf(env) ==
    IF env.supported /\ ~env.predictRaises /\ Malformed(env.res)
    THEN "malformed" ELSE "other"

\* ------------------------------------------------- start callbacks
\* The click on a generate button of session s: n_clicks is incremented and
\* start_generation / start_thumbnail_generation runs with the blog-input
\* text c. Lines 149 and 161 (282 and 292): the blank check and the id.
\* t is the reading time.time() gives: the clock does not run backwards, and
\* two readings can be equal.
StartBegin(s, k, c, t) ==
    /\ nextReq <= MaxStarts
    /\ t >= now
    /\ now' = t
    /\ LET n == n_clicks[s][k] + 1
           base == [UnusedRequest EXCEPT !.session = s, !.kind = k,
                                         !.n_clicks = n, !.content = c]
       IN  /\ n_clicks' = [n_clicks EXCEPT ![s][k] = n]
           /\ req' = [req EXCEPT ![nextReq] =
                        IF IsBlank(c)
                        THEN [base EXCEPT !.pc = "reject"]
                        ELSE [base EXCEPT !.pc = "insert", !.gen_id = GenId(k, n, t)]]
    /\ nextReq' = nextReq + 1
    /\ UNCHANGED <<generation_status, poll, trigger, disabled, chained, ui>>

\* Lines 151-157 (283-289): the blank request's outputs reach the session:
\* trigger None, loading hidden, the output container shown, interval
\* disabled, n_intervals 0.
StartReject(r) ==
    /\ req[r].pc = "reject"
    /\ req' = [req EXCEPT ![r].pc = "rejected"]
    /\ trigger' = [trigger EXCEPT ![req[r].session][req[r].kind] = NoId]
    /\ disabled' = [disabled EXCEPT ![req[r].session][req[r].kind] = TRUE]
    /\ chained' = [chained EXCEPT ![req[r].session][req[r].kind] = TRUE]
    /\ loading' = [loading EXCEPT ![req[r].session] = FALSE]
    /\ output_container' = [output_container EXCEPT ![req[r].session][req[r].kind] = TRUE]
    /\ UNCHANGED <<generation_status, now, nextReq, poll, n_clicks>>
    /\ UNCHANGED <<generation_result, displaying, output_text, output_store>>

\* Line 171 (301): the entry is written.
StartInsert(r) ==
    /\ req[r].pc = "insert"
    /\ generation_status' = Put(generation_status, req[r].gen_id, Entry("generating", None))
    /\ req' = [req EXCEPT ![r].pc = "spawn"]
    /\ UNCHANGED <<now, nextReq, poll, n_clicks, trigger, disabled, chained, ui>>

\* Lines 172-173 (302-303): the worker thread is started.
StartThread(r) ==
    /\ req[r].pc = "spawn"
    /\ req' = [req EXCEPT ![r].pc = "return", ![r].wpc = "running"]
    /\ UNCHANGED <<generation_status, now, nextReq, poll, n_clicks, trigger, disabled, chained, ui>>

\* Lines 176-182 (305-311): the outputs reach the session: the trigger store
\* holds the id, loading is shown, the output container hidden, the interval
\* is enabled, n_intervals is reset.
StartReturn(r) ==
    /\ req[r].pc = "return"
    /\ req' = [req EXCEPT ![r].pc = "done"]
    /\ trigger' = [trigger EXCEPT ![req[r].session][req[r].kind] = req[r].gen_id]
    /\ disabled' = [disabled EXCEPT ![req[r].session][req[r].kind] = FALSE]
    /\ chained' = [chained EXCEPT ![req[r].session][req[r].kind] = TRUE]
    /\ loading' = [loading EXCEPT ![req[r].session] = TRUE]
    /\ output_container' = [output_container EXCEPT ![req[r].session][req[r].kind] = FALSE]
    /\ UNCHANGED <<generation_status, now, nextReq, poll, n_clicks>>
    /\ UNCHANGED <<generation_result, displaying, output_text, output_store>>

\* ------------------------------------------------------------ worker
\* The entry with the status left as it was.
WorkerEntryKeepsStatus(out) ==
    IF out.ok THEN Entry("generating", out.val)
    ELSE Entry("error", Str(<<ErrorPrefix>> \o out.err))

\* The entry generate_in_background writes for what its call gave.
WorkerEntry(out) ==
    IF out.ok THEN Entry("complete", out.val)
    ELSE Entry("error", Str(<<ErrorPrefix>> \o out.err))

\* generate_in_background, lines 164-169 (294-299): the generation call in
\* environment env ends and the worker writes the entry.
WorkerFinish(r, env, imgs) ==
    /\ req[r].wpc = "running"
    /\ LET out == Generate(req[r].kind, env, imgs)
       IN  /\ generation_status' = Put(generation_status, req[r].gen_id, WorkerEntry(out))
           /\ req' = [req EXCEPT ![r].wpc = "finished", ![r].out = out,
                                 ![r].shape = ShapeOf(env),
                                 ![r].env = env,
                                 ![r].imgs = IF req[r].kind = "thumb" THEN imgs
                                             ELSE NoImages]
    /\ UNCHANGED <<now, nextReq, poll, n_clicks, trigger, disabled, chained, ui>>

\* ------------------------------------------------- poll callbacks
\* The test with 'generating' let through.
IsTerminalOrGenerating(status) == status \in {"complete", "error", "generating"}

\* `status_info['status'] in ['complete', 'error']`
IsTerminal(status) == status \in {"complete", "error"}

\* The test of line 195 without its second half: `not gen_id`.
IsAbsentOnlyNull(gen_id, d) == gen_id = NoId

\* `not gen_id or gen_id not in self.generation_status`
IsAbsent(gen_id, d) == gen_id = NoId \/ gen_id \notin DOMAIN d

\* What a poll returns: (result, disabled).
\* `return None, True`, lines 196 and 325
NothingToReport == [result |-> None, stop |-> TRUE]

\* `return None, True` in the place of `return None, False`
StillGeneratingStops == [result |-> None, stop |-> TRUE]

\* `return None, False`, lines 208 and 334
StillGenerating == [result |-> None, stop |-> FALSE]

\* The interval of session s fires (it is enabled, or a start callback has
\* just written its n_intervals) and check_generation_status /
\* check_thumbnail_generation_status starts on server thread p with the id
\* the trigger store holds at that moment. The server threads are
\* interchangeable: the idle one of lowest number takes the request.
PollBegin(p, s, k) ==
    /\ poll[p].pc = "idle"
    /\ \A q \in Pollers : q < p => poll[q].pc # "idle"
    /\ ~disabled[s][k] \/ chained[s][k]
    /\ poll' = [poll EXCEPT ![p] =
                  [IdlePoll EXCEPT !.pc = "check", !.session = s, !.kind = k,
                                   !.gen_id = trigger[s][k]]]
    /\ chained' = [chained EXCEPT ![s][k] = FALSE]
    /\ UNCHANGED <<generation_status, now, req, nextReq, n_clicks, trigger, disabled, ui>>

\* Lines 195-196 (324-325): `not gen_id or gen_id not in self.generation_status`.
PollCheck(p) ==
    /\ poll[p].pc = "check"
    /\ poll' = [poll EXCEPT ![p] =
                  IF IsAbsent(poll[p].gen_id, generation_status)
                  THEN [@ EXCEPT !.pc = "ret", !.branch = "absent",
                                 !.result = NothingToReport.result,
                                 !.stop = NothingToReport.stop]
                  ELSE [@ EXCEPT !.pc = "read"]]
    /\ UNCHANGED <<generation_status, now, req, nextReq, n_clicks, trigger, disabled, chained, ui>>

\* Lines 198-202 and 208 (327-330 and 334): status_info is looked up (a
\* KeyError if the entry is gone by now) and its status is tested.
PollRead(p) ==
    /\ poll[p].pc = "read"
    /\ poll' = [poll EXCEPT ![p] =
                  IF poll[p].gen_id \notin DOMAIN generation_status
                  THEN [@ EXCEPT !.pc = "raised"]
                  ELSE LET status_info == generation_status[poll[p].gen_id]
                       IN  IF IsTerminal(status_info.status)
                           THEN [@ EXCEPT !.pc = "del", !.seen = status_info.status,
                                          !.result = status_info.result]
                           ELSE [@ EXCEPT !.pc = "ret", !.seen = status_info.status,
                                          !.branch = "pending",
                                          !.result = StillGenerating.result,
                                          !.stop = StillGenerating.stop]]
    /\ UNCHANGED <<generation_status, now, req, nextReq, n_clicks, trigger, disabled, chained, ui>>

\* Lines 204-205 (331-332): `del self.generation_status[gen_id]` (a KeyError
\* if the entry is gone by now), then the result is returned.
PollDel(p) ==
    /\ poll[p].pc = "del"
    /\ IF poll[p].gen_id \notin DOMAIN generation_status
       THEN /\ poll' = [poll EXCEPT ![p].pc = "raised"]
            /\ UNCHANGED generation_status
       ELSE /\ generation_status' = Del(generation_status, poll[p].gen_id)
            /\ poll' = [poll EXCEPT ![p].pc = "ret", ![p].branch = "done", ![p].stop = TRUE]
    /\ UNCHANGED <<now, req, nextReq, n_clicks, trigger, disabled, chained, ui>>

\* The callback's response reaches the session: the result store and the
\* interval's disabled property take the returned values, and the write to
\* the store fires the display callback. A callback that raised answers with
\* an error and updates nothing.
PollFinish(p) ==
    /\ poll[p].pc \in {"ret", "raised"}
    /\ LET s == poll[p].session
           k == poll[p].kind
       IN  IF poll[p].pc = "ret"
           THEN /\ disabled' = [disabled EXCEPT ![s][k] = poll[p].stop]
                /\ generation_result' = [generation_result EXCEPT ![s][k] =
                                            Result(poll[p].result, poll[p].gen_id)]
                /\ displaying' = [displaying EXCEPT ![s][k] = TRUE]
           ELSE UNCHANGED <<disabled, generation_result, displaying>>
    /\ poll' = [poll EXCEPT ![p] = IdlePoll]
    /\ UNCHANGED <<generation_status, now, req, nextReq, n_clicks, trigger, chained>>
    /\ UNCHANGED <<loading, output_container, output_text, output_store>>

\* --------------------------------------- display and clear callbacks
\* display_results / display_thumbnail_results of session s runs on the value
\* of the result store and its outputs reach the page (lines 219-228 and
\* 345-409). The call is taken to run on the value the store holds when it
\* runs: a write to the store that comes before the call has run supersedes
\* the earlier firing. The source does not decide how the page orders the
\* calls it has fired; this is the scheduling assumed here.
DisplayStep(s, k) ==
    /\ displaying[s][k]
    /\ displaying' = [displaying EXCEPT ![s][k] = FALSE]
    /\ LET out == Display(k, generation_result[s][k].data)
       IN  IF out.update
           THEN /\ output_text' = [output_text EXCEPT ![s][k] = out.children]
                /\ loading' = [loading EXCEPT ![s] = out.loading]
                /\ output_container' = [output_container EXCEPT ![s][k] = out.container]
                /\ output_store' = [output_store EXCEPT ![s][k] = out.store]
           ELSE UNCHANGED <<output_text, loading, output_container, output_store>>
    /\ UNCHANGED <<generation_status, now, req, nextReq, poll, n_clicks, trigger, disabled,
                   chained, generation_result>>

\* The click on the clear button of session s, for the callback of kind k:
\* clear_all (lines 238-241: the input is emptied, the hooks container
\* hidden, the hooks result store set to None) or clear_thumbnails (lines
\* 418-421). The write to the result store fires the display callback. The
\* click is taken when there is something to clear: with the container
\* hidden and the store empty the callback changes nothing on the page.
ClearStep(s, k) ==
    /\ output_container[s][k] \/ ~generation_result[s][k].data.isNone
    /\ output_container' = [output_container EXCEPT ![s][k] = FALSE]
    /\ generation_result' = [generation_result EXCEPT ![s][k] = Result(None, NoId)]
    /\ displaying' = [displaying EXCEPT ![s][k] = TRUE]
    /\ UNCHANGED <<generation_status, now, req, nextReq, poll, n_clicks, trigger, disabled,
                   chained, loading, output_text, output_store>>

\* ------------------------------------------------------ specification
Next ==
    \/ \E s \in Sessions, k \in Kinds, c \in Contents, t \in 0..MaxClock :
            StartBegin(s, k, c, t)
    \/ \E r \in Requests : StartReject(r)
    \/ \E r \in Requests : StartInsert(r)
    \/ \E r \in Requests : StartThread(r)
    \/ \E r \in Requests : StartReturn(r)
    \/ \E r \in Requests, env \in WorkerEnvs, imgs \in WorkerImages :
            WorkerFinish(r, env, imgs)
    \/ \E p \in Pollers, s \in Sessions, k \in Kinds : PollBegin(p, s, k)
    \/ \E p \in Pollers : PollCheck(p)
    \/ \E p \in Pollers : PollRead(p)
    \/ \E p \in Pollers : PollDel(p)
    \/ \E p \in Pollers : PollFinish(p)

\* The sessions against the shared registry: the callbacks and threads that
\* read or write generation_status. The display and clear callbacks read and
\* write components of one page only, which no action of Next reads; they
\* are part of NextPage below.
Spec == Init /\ [][Next]_vars

\* One page with all its callbacks: the start, poll, display and clear
\* callbacks of session 1 and the workers its starts create.
NextPage ==
    \/ \E k \in Kinds, c \in Contents, t \in 0..MaxClock : StartBegin(1, k, c, t)
    \/ \E r \in Requests : StartReject(r)
    \/ \E r \in Requests : StartInsert(r)
    \/ \E r \in Requests : StartThread(r)
    \/ \E r \in Requests : StartReturn(r)
    \/ \E r \in Requests, env \in WorkerEnvs, imgs \in WorkerImages :
            WorkerFinish(r, env, imgs)
    \/ \E p \in Pollers, k \in Kinds : PollBegin(p, 1, k)
    \/ \E p \in Pollers : PollCheck(p)
    \/ \E p \in Pollers : PollRead(p)
    \/ \E p \in Pollers : PollDel(p)
    \/ \E p \in Pollers : PollFinish(p)
    \/ \E k \in Kinds : DisplayStep(1, k)
    \/ \E k \in Kinds : ClearStep(1, k)

SpecPage == Init /\ [][NextPage]_vars

\* One job of either kind, started by session 1 and now running, met by
\* every environment of Envs and every image outcome: the generation calls
\* as functions of what the endpoints answer, and the polls that follow.
InitGen ==
    \E k \in Kinds :
        LET id == GenId(k, 1, 0)
        IN  /\ generation_status = [x \in {id} |-> Entry("generating", None)]
            /\ now = 0
            /\ req = [r \in Requests |->
                        IF r = 1
                        THEN [UnusedRequest EXCEPT !.pc = "done", !.session = 1, !.kind = k,
                                                   !.n_clicks = 1, !.content = Str(<<"a">>),
                                                   !.gen_id = id, !.wpc = "running"]
                        ELSE UnusedRequest]
            /\ nextReq = 2
            /\ poll = [p \in Pollers |-> IdlePoll]
            /\ n_clicks = [s \in Sessions |-> [j \in Kinds |->
                             IF s = 1 /\ j = k THEN 1 ELSE 0]]
            /\ trigger = [s \in Sessions |-> [j \in Kinds |->
                            IF s = 1 /\ j = k THEN id ELSE NoId]]
            /\ disabled = [s \in Sessions |-> [j \in Kinds |-> ~(s = 1 /\ j = k)]]
            /\ chained = [s \in Sessions |-> [j \in Kinds |-> s = 1 /\ j = k]]
            /\ generation_result = [s \in Sessions |-> [j \in Kinds |-> Result(None, NoId)]]
            /\ displaying = [s \in Sessions |-> [j \in Kinds |-> FALSE]]
            /\ loading = [s \in Sessions |-> s = 1]
            /\ output_container = [s \in Sessions |-> [j \in Kinds |-> FALSE]]
            /\ output_text = [s \in Sessions |-> [j \in Kinds |-> None]]
            /\ output_store = [s \in Sessions |-> [j \in Kinds |-> None]]

NextGen ==
    \/ \E env \in Envs, imgs \in ImageOutcomes : WorkerFinish(1, env, imgs)
    \/ \E p \in Pollers, k \in Kinds : PollBegin(p, 1, k)
    \/ \E p \in Pollers : PollCheck(p)
    \/ \E p \in Pollers : PollRead(p)
    \/ \E p \in Pollers : PollDel(p)
    \/ \E p \in Pollers : PollFinish(p)
    \/ \E k \in Kinds : DisplayStep(1, k)

SpecGen == InitGen /\ [][NextGen]_vars

\* One environment for each value the result of a job can hold: a text, the
\* empty text (a list content without text parts), None (a content that is
\* null) and an exception.
ResultEnvs ==
    {Env(TRUE, FALSE, Response(TRUE, <<MsgStr(<<ConceptA, NLTok, NLTok, ConceptB>>)>>, FALSE, <<>>)),
     Env(TRUE, FALSE, Response(FALSE, <<>>, TRUE, <<MsgList(<<>>)>>)),
     Env(TRUE, FALSE, Response(TRUE, <<MsgNull>>, FALSE, <<>>)),
     Env(TRUE, TRUE, Response(FALSE, <<>>, FALSE, <<>>))}

\* One job of either kind of session 1 that ends with one of these results,
\* under the scheduling the page and the server give: the worker's call
\* ends, the interval fires while it is enabled, and a callback that has
\* been fired runs to its response.
NextResults ==
    \/ \E env \in ResultEnvs, imgs \in WorkerImages : WorkerFinish(1, env, imgs)
    \/ \E p \in Pollers, k \in Kinds : PollBegin(p, 1, k)
    \/ \E p \in Pollers : PollCheck(p)
    \/ \E p \in Pollers : PollRead(p)
    \/ \E p \in Pollers : PollDel(p)
    \/ \E p \in Pollers : PollFinish(p)
    \/ \E k \in Kinds : DisplayStep(1, k)

FairSpecResults ==
    /\ InitGen /\ [][NextResults]_vars
    /\ WF_vars(\E env \in ResultEnvs, imgs \in WorkerImages : WorkerFinish(1, env, imgs))
    /\ WF_vars(\E p \in Pollers, k \in Kinds : PollBegin(p, 1, k))
    /\ WF_vars(\E p \in Pollers : PollCheck(p))
    /\ WF_vars(\E p \in Pollers : PollRead(p))
    /\ WF_vars(\E p \in Pollers : PollDel(p))
    /\ WF_vars(\E p \in Pollers : PollFinish(p))
    /\ WF_vars(\E k \in Kinds : DisplayStep(1, k))

\* ===================================================================
\* Properties
\* ===================================================================
Started(r) == req[r].pc \in {"spawn", "return", "done"}
Returned(p) == poll[p].pc = "ret"
ReturnedDone(p) == poll[p].pc = "ret" /\ poll[p].branch = "done"

\* C1. Consume-once: among the polls of a terminal job's id, overlapping ones
\* included, one returns the job's result, every other one returns
\* (None, stop polling), and no poll raises. Stated on the polls in progress:
\* no poll callback ends in an exception, no two polls return the result of
\* the same id, and a poll that does not return a result returns None.
ConsumeOnce ==
    /\ \A p \in Pollers : poll[p].pc # "raised"
    /\ \A p, q \in Pollers :
          p # q /\ ReturnedDone(p) /\ ReturnedDone(q) => poll[p].gen_id # poll[q].gen_id
    /\ \A p \in Pollers :
          Returned(p) /\ poll[p].branch = "absent" => poll[p].result = None /\ poll[p].stop

\* C2. A start request whose content is missing, empty or whitespace-only is
\* rejected: it gets no job id, writes no entry, starts no worker (so makes
\* no generation call), and its response sets the trigger to None and
\* disables the interval.
BlankText(c) == c.isNone \/ \A i \in 1..Len(c.s) : c.s[i] \in Whitespace
BlankNeverStarts ==
    \A r \in Requests :
        req[r].pc # "unused" /\ BlankText(req[r].content) =>
            /\ req[r].pc \in {"reject", "rejected"}
            /\ req[r].gen_id = NoId
            /\ req[r].wpc = "none"
BlankStepLeavesRegistry ==
    \A r \in Requests :
        req[r].pc # req'[r].pc /\ BlankText(req'[r].content) =>
            /\ generation_status' = generation_status
            /\ \A q \in Requests : req'[q].wpc = req[q].wpc
            /\ req'[r].pc = "rejected" =>
                  /\ trigger'[req[r].session][req[r].kind] = NoId
                  /\ disabled'[req[r].session][req[r].kind] = TRUE
\* C2: a blank request is rejected in every state and by every step.
BlankRejected == []BlankNeverStarts /\ [][BlankStepLeavesRegistry]_vars
\* A whitespace-only request has been rejected.
BlankRejectedWitness ==
    \E r \in Requests :
        /\ req[r].pc = "rejected"
        /\ req[r].content = Str(<<" ">>)
        /\ trigger[req[r].session][req[r].kind] = NoId
        /\ disabled[req[r].session][req[r].kind]

\* The request of session s whose job id is g, if s has one.
OwnJob(r, s, g) == Started(r) /\ req[r].session = s /\ req[r].gen_id = g

\* C3. For a non-blank start request the entry of the returned id is written
\* before the worker thread is started and before the id is returned, and the
\* return does not wait for the generation call; so the poll issued right
\* after the start (the one the start's own n_intervals output fires, with
\* the returned id) does not find the id absent.
PollAfterStartFindsEntry ==
    \A r \in Requests :
        /\ req[r].wpc # "none" \/ req[r].pc \in {"return", "done"} => Started(r)
        /\ ( /\ req[r].pc = "done"
             /\ chained[req[r].session][req[r].kind]
             /\ trigger[req[r].session][req[r].kind] = req[r].gen_id )
           => req[r].gen_id \in DOMAIN generation_status

\* C4. Every job id makes exactly one terminal transition: its entry is
\* created once, as 'generating'; it changes once, from 'generating' to
\* 'complete' or 'error'; after that it is not written again until a poll
\* removes it, and it is not created again after its removal.
EntryStep(id) ==
    LET was == id \in DOMAIN generation_status
        is == id \in DOMAIN generation_status'
    IN  /\ ~was /\ is =>
              /\ generation_status'[id].status = "generating"
              /\ ~\E q \in Requests : Started(q) /\ req[q].gen_id = id
        /\ was /\ is /\ generation_status'[id] # generation_status[id] =>
              /\ generation_status[id].status = "generating"
              /\ generation_status'[id].status \in {"complete", "error"}
\* C4: every step obeys the one-terminal-transition rule for every id.
OneTerminalTransition == [][\A id \in Ids : EntryStep(id)]_vars

\* C5. No two jobs that are live at the same time have the same id, whatever
\* the clock readings and click counters of the sessions: a start never
\* writes its entry over the entry of a live job.
StartNeverOverwrites ==
    [][\A r \in Requests :
          req[r].pc = "insert" /\ req'[r].pc = "spawn" =>
              req[r].gen_id \notin DOMAIN generation_status]_vars

\* C6. When the generation call of a started job returns and its session
\* keeps polling the returned id, a poll returns done with exactly the text
\* that call returned, and the id is absent from then on. Stated on each poll
\* that returns done to a session for the id of the session's job: the job's
\* own call has ended, and when it returned a value the poll returns that
\* value.
PollDeliversOwnText ==
    \A p \in Pollers : \A r \in Requests :
        ReturnedDone(p) /\ OwnJob(r, poll[p].session, poll[p].gen_id) =>
            /\ req[r].wpc = "finished"
            /\ req[r].out.ok => poll[p].result = req[r].out.val

\* C7. When the generation call of a job raises, the worker ends normally
\* (the exception does not leave it, the call is made once) having set the
\* entry to 'error' with the cross mark, " Error: " and the message; and the
\* poll that returns done for that job returns that string.
WorkerCatches ==
    \A r \in Requests :
        req[r].wpc = "finished" /\ ~req[r].out.ok =>
            /\ WorkerEntry(req[r].out).status = "error"
            /\ Len(WorkerEntry(req[r].out).result.s) > 1
            /\ Head(WorkerEntry(req[r].out).result.s) = ErrorPrefix
            /\ Tail(WorkerEntry(req[r].out).result.s) = req[r].out.err
\* C7: the worker catches, and the done poll of the job returns the error string.
ErrorDelivered ==
    /\ WorkerCatches
    /\ \A p \in Pollers : \A r \in Requests :
          /\ ReturnedDone(p) /\ OwnJob(r, poll[p].session, poll[p].gen_id)
          /\ req[r].wpc = "finished" /\ ~req[r].out.ok
          => poll[p].result = Str(<<ErrorPrefix>> \o req[r].out.err)

\* C8. Every malformed or unusable response of the endpoint (neither
\* 'messages' nor 'choices'; a choice whose content is neither a string nor a
\* list; a final message without a 'content' field) ends the job with status
\* 'error', never 'complete'.
MalformedEndsFailed ==
    \A r \in Requests :
        req[r].wpc = "finished" /\ req[r].shape = "malformed" =>
            WorkerEntry(req[r].out).status = "error"

\* C9. Jobs with different ids do not interact: a step changes the registry
\* at one id at most, the id of the start, worker or poll that takes the
\* step; and the entry a worker writes is the one its own call determines,
\* whatever the calls of the other jobs did.
ActsOn(id) ==
    \/ \E r \in Requests :
          /\ req[r].gen_id = id
          /\ \/ req[r].pc = "insert" /\ req'[r].pc = "spawn"
             \/ req[r].wpc = "running" /\ req'[r].wpc = "finished"
    \/ \E p \in Pollers :
          poll[p].gen_id = id /\ poll[p].pc = "del" /\ poll'[p].pc = "ret"
EntryChanged(id) ==
    \/ (id \in DOMAIN generation_status) # (id \in DOMAIN generation_status')
    \/ /\ id \in DOMAIN generation_status /\ id \in DOMAIN generation_status'
       /\ generation_status'[id] # generation_status[id]
IsolatedStep ==
    /\ \A id \in Ids : EntryChanged(id) => ActsOn(id)
    /\ \A r \in Requests :
          req[r].wpc = "running" /\ req'[r].wpc = "finished" =>
              /\ req[r].gen_id \in DOMAIN generation_status'
              /\ generation_status'[req[r].gen_id] = WorkerEntry(req'[r].out)
\* C9: every step is isolated.
JobsIsolated == [][IsolatedStep]_vars
\* Two jobs with different ids have both ended, one failed and one not, and
\* both entries are in the registry.
JobsIsolatedWitness ==
    \E a, b \in Requests :
        /\ req[a].wpc = "finished" /\ req[b].wpc = "finished"
        /\ req[a].gen_id # req[b].gen_id
        /\ ~req[a].out.ok /\ req[b].out.ok
        /\ {req[a].gen_id, req[b].gen_id} \subseteq DOMAIN generation_status
        /\ generation_status[req[a].gen_id].status = "error"
        /\ generation_status[req[b].gen_id].status = "complete"

\* C10. An entry is removed only by a poll of its id that has observed a
\* terminal status: not by a worker, not by a start. So the entry of a job
\* whose id is not polled again stays in the registry.
RemovalStep ==
    \A id \in DOMAIN generation_status :
        id \notin DOMAIN generation_status' =>
            \E p \in Pollers :
                /\ poll[p].gen_id = id
                /\ poll[p].pc = "del" /\ poll'[p].pc = "ret"
                /\ poll[p].seen \in {"complete", "error"}
\* C10: every removal is the del step of a poll that observed a terminal status.
RemovedOnlyByPoll == [][RemovalStep]_vars
\* A poll has removed the entry of one job while the entry of a finished job
\* that its session no longer polls (the trigger holds another id) stays.
RemovedOnlyByPollWitness ==
    /\ \E p \in Pollers : ReturnedDone(p)
    /\ \E r \in Requests :
          /\ req[r].pc = "done" /\ req[r].wpc = "finished"
          /\ trigger[req[r].session][req[r].kind] # req[r].gen_id
          /\ req[r].gen_id \in DOMAIN generation_status

\* C11. A poll that finds the entry of its id with status 'generating'
\* returns no result together with the keep-polling signal, which leaves the
\* interval enabled (disabled = False), and no step of that poll changes the
\* registry.
PendingPollStep(p) ==
    /\ ( /\ poll[p].pc = "read"
         /\ poll[p].gen_id \in DOMAIN generation_status
         /\ generation_status[poll[p].gen_id].status = "generating" )
       => /\ poll'[p].pc = "ret" /\ poll'[p].branch = "pending"
          /\ poll'[p].result = None /\ poll'[p].stop = FALSE
          /\ generation_status' = generation_status
    /\ ( poll[p].pc = "ret" /\ poll[p].branch = "pending" )
       => /\ poll[p].seen = "generating"
          /\ poll'[p].pc = "idle"
          /\ disabled'[poll[p].session][poll[p].kind] = FALSE
          /\ generation_status' = generation_status
\* C11: every step of a poll that meets a 'generating' entry is as stated.
PendingPollFrame ==
    [][\A p \in Pollers : poll'[p] # poll[p] => PendingPollStep(p)]_vars
\* A poll has answered keep-polling for an entry that is still 'generating'.
PendingPollFrameWitness ==
    \E p \in Pollers :
        /\ poll[p].pc = "ret" /\ poll[p].branch = "pending" /\ ~poll[p].stop
        /\ poll[p].gen_id \in DOMAIN generation_status
        /\ generation_status[poll[p].gen_id].status = "generating"

\* C12. A poll with a null id, or with an id that is not in the registry,
\* returns no result together with the stop-polling signal, which disables
\* the interval; it raises nothing and no step of it changes the registry.
AbsentPollStep(p) ==
    /\ ( /\ poll[p].pc = "check"
         /\ \/ poll[p].gen_id = NoId
            \/ poll[p].gen_id \notin DOMAIN generation_status )
       => /\ poll'[p].pc = "ret" /\ poll'[p].branch = "absent"
          /\ poll'[p].result = None /\ poll'[p].stop = TRUE
          /\ generation_status' = generation_status
    /\ ( poll[p].pc = "ret" /\ poll[p].branch = "absent" )
       => /\ poll'[p].pc = "idle"
          /\ disabled'[poll[p].session][poll[p].kind] = TRUE
          /\ generation_status' = generation_status
\* C12: every step of a poll with a null or absent id is as stated.
AbsentPollFrame ==
    [][\A p \in Pollers : poll'[p] # poll[p] => AbsentPollStep(p)]_vars
\* Polls have answered stop-polling: one for an id already consumed, and one
\* for a null id.
AbsentPollFrameWitness ==
    /\ \E p \in Pollers :
          /\ poll[p].pc = "ret" /\ poll[p].branch = "absent"
          /\ poll[p].gen_id # NoId
          /\ \E r \in Requests : req[r].gen_id = poll[p].gen_id /\ req[r].wpc = "finished"
    /\ \E p \in Pollers :
          poll[p].pc = "ret" /\ poll[p].branch = "absent" /\ poll[p].gen_id = NoId

\* C13. Once the polling loop of a kind is stopped (its interval disabled), it
\* stays stopped until a fresh non-blank start of that kind supplies a new
\* job id: the only step that enables a disabled interval is the return of
\* a non-blank start request of that session and kind, which writes its new
\* id to the trigger; no poll response enables it.
EnabledOnlyByStart(s, k) ==
    disabled[s][k] /\ ~disabled'[s][k] =>
        \E r \in Requests :
            /\ req[r].session = s /\ req[r].kind = k
            /\ req[r].pc = "return" /\ req'[r].pc = "done"
            /\ ~IsBlank(req[r].content)
            /\ trigger'[s][k] = req[r].gen_id
\* C13: every step leaves a stopped polling loop stopped, but for a fresh start.
StoppedStaysStopped ==
    [][\A s \in Sessions, k \in Kinds : EnabledOnlyByStart(s, k)]_vars

\* C14. In every state and for every registry entry the result is non-null
\* only if the status is 'complete' or 'error': an entry with status
\* 'generating' has result None.
ResultOnlyWhenTerminal ==
    \A id \in DOMAIN generation_status :
        /\ ~generation_status[id].result.isNone =>
              generation_status[id].status \in {"complete", "error"}
        /\ generation_status[id].status = "generating" =>
              generation_status[id].result = None
\* The registry holds a 'generating' entry and a terminal entry with a result.
ResultOnlyWhenTerminalWitness ==
    \E a, b \in DOMAIN generation_status :
        /\ generation_status[a].status = "generating"
        /\ generation_status[b].status \in {"complete", "error"}
        /\ ~generation_status[b].result.isNone

\* The thumbnail job of session 1 whose payload the display callback has
\* rendered: its call returned, a poll delivered exactly its payload, and
\* display_thumbnail_results ran on it.
ThumbnailsDisplayed(r) ==
    /\ req[r].kind = "thumb" /\ req[r].wpc = "finished" /\ req[r].out.ok
    /\ generation_result[req[r].session]["thumb"].data = req[r].out.val
    /\ ~displaying[req[r].session]["thumb"]
    /\ output_container[req[r].session]["thumb"]
\* The concepts text the chat call of request r returned.
ConceptsOf(r) == LastContent(QueryEndpoint(req[r].env)).val
\* What _generate_image gave for the image calls of request r, in order.
OutcomesOf(r) ==
    [i \in 1..Len(ImageCalls(ConceptsOf(r).s)) |-> GenerateImage(req[r].imgs[i])]
RECURSIVE Sources(_)
Sources(images) ==
    IF images = <<>> THEN <<>> ELSE <<Head(images).src>> \o Sources(Tail(images))
RECURSIVE Successful(_)
Successful(outcomes) ==
    IF outcomes = <<>> THEN <<>>
    ELSE (IF Head(outcomes) # "" THEN <<<<Head(outcomes)>>>> ELSE <<>>)
         \o Successful(Tail(outcomes))

\* C15. Round trip of the thumbnail payload: for every concepts text C and
\* every list of up to two per-image outcomes, display_thumbnail_results
\* applied to the payload generate_thumbnails builds from them stores as copy
\* payload exactly C trimmed (nothing of the divider or of the image section)
\* and renders exactly the successful blobs, in order, one image each.
ThumbnailRoundTrip ==
    \A r \in Requests :
        ThumbnailsDisplayed(r) =>
            /\ output_store[req[r].session]["thumb"] = Strip(ConceptsOf(r))
            /\ Sources(output_text[req[r].session]["thumb"].images)
                  = Successful(OutcomesOf(r))

\* The thumbnail job r whose chat call returned a concepts text.
ThumbnailsBuilt(r) ==
    /\ req[r].kind = "thumb" /\ req[r].wpc = "finished"
    /\ LastContent(QueryEndpoint(req[r].env)).ok
    /\ ~ConceptsOf(r).isNone
\* The position of the first token of seq q that is tok (0: none).
IndexOf(q, tok) ==
    IF \E i \in 1..Len(q) : q[i] = tok
    THEN CHOOSE i \in 1..Len(q) : q[i] = tok /\ \A j \in 1..(i - 1) : q[j] # tok
    ELSE 0
\* C16. A failure of image generation for one concept does not fail the job:
\* the payload is returned (status 'complete') with the failure block of
\* number n in that concept's position, the image of the other concept is
\* still attempted (its block is there, with its blob when it succeeded), and
\* the image calls are at most two, for the first concepts in their order.
ImageFailureKeepsJob ==
    \A r \in Requests :
        ThumbnailsBuilt(r) =>
            LET calls == ImageCalls(ConceptsOf(r).s)
                all == Descriptions(ConceptsOf(r).s)
                payload == req[r].out.val.s
                after == Len(ConceptsOf(r).s) + Len(Divider)
                At(i) == IF OutcomesOf(r)[i] = "" THEN IndexOf(payload, ImageFail(i))
                         ELSE IndexOf(payload, ImageHdr(i))
            IN  /\ req[r].out.ok
                /\ WorkerEntry(req[r].out).status = "complete"
                /\ Len(calls) <= 2 /\ Len(calls) <= Len(all)
                /\ Len(all) >= 2 => Len(calls) = 2
                /\ \A i \in 1..Len(calls) : calls[i] = all[i]
                /\ \A i \in 1..2 :
                      IF i <= Len(calls)
                      THEN /\ At(i) > after
                           /\ OutcomesOf(r)[i] = "" =>
                                 IndexOf(payload, ImageHdr(i)) = 0
                           /\ OutcomesOf(r)[i] # "" =>
                                 /\ IndexOf(payload, ImageFail(i)) = 0
                                 /\ payload[At(i) + 4] = OutcomesOf(r)[i]
                      ELSE /\ IndexOf(payload, ImageFail(i)) = 0
                           /\ IndexOf(payload, ImageHdr(i)) = 0
                /\ Len(calls) = 2 => At(1) < At(2)
\* A job of two concepts whose first image failed (the endpoint raised) and
\* whose second image succeeded has completed.
ImageFailureKeepsJobWitness ==
    \E r \in Requests :
        /\ ThumbnailsBuilt(r)
        /\ Len(ImageCalls(ConceptsOf(r).s)) = 2
        /\ req[r].imgs[1].raises
        /\ OutcomesOf(r)[1] = "" /\ OutcomesOf(r)[2] # ""
        /\ req[r].gen_id \in DOMAIN generation_status
        /\ generation_status[req[r].gen_id].status = "complete"

\* C17. For each kind, every result handed to the display step is the result
\* of the most recently started job of that kind in the session: once a new
\* non-blank start has returned its id (the trigger holds it), no result of
\* an earlier job's id is written to the result store, and no poll response
\* for an earlier job's id stops the polling of the new job.
LatestOnlyStep(p) ==
    LET s == poll[p].session
        k == poll[p].kind
    IN  ( /\ poll[p].pc = "ret" /\ poll'[p].pc = "idle"
          /\ trigger[s][k] # NoId
          /\ poll[p].gen_id # NoId
          /\ poll[p].gen_id # trigger[s][k] )
        => /\ generation_result'[s][k].data.isNone
           /\ ~disabled[s][k] => ~disabled'[s][k]
\* C17: every poll response obeys the rule.
LatestResultOnly == [][\A p \in Pollers : LatestOnlyStep(p)]_vars

\* A job of kind k of session s is still being polled in 'generating' status:
\* its start has returned, the trigger holds its id, the interval is enabled
\* and the entry of the id has status 'generating'.
Polled(s, k) ==
    /\ trigger[s][k] # NoId
    /\ ~disabled[s][k]
    /\ trigger[s][k] \in DOMAIN generation_status
    /\ generation_status[trigger[s][k]].status = "generating"
    /\ \E r \in Requests :
          req[r].pc = "done" /\ req[r].session = s /\ req[r].gen_id = trigger[s][k]

\* C19. The shared loading indicator is visible in every state in which a job
\* of either kind is still being polled in 'generating' status: completion,
\* rejection or display of a job of one kind does not hide it while a job of
\* the other kind is still running and polled.
LoadingWhilePolled ==
    \A s \in Sessions : \A k \in Kinds : Polled(s, k) => loading[s]

\* C18. Whenever a poll consumes a terminal job and stops polling, the
\* display step eventually hides the loading indicator and shows the output
\* container of that kind, for every value the job's result can hold (a null
\* or empty result of the generation call included).
ConsumedIsDisplayed ==
    \A s \in Sessions : \A k \in Kinds :
        (\E p \in Pollers :
            /\ poll[p].pc = "ret" /\ poll[p].branch = "done"
            /\ poll[p].session = s /\ poll[p].kind = k)
        ~> (~loading[s] /\ output_container[s][k])

====
